---- MODULE Spec2Model ----
(***************************************************************************)
(* A model of config-compare (src/config_compare.py): the recursive walker *)
(* _do_branch that merges every configuration source into the dictionary   *)
(* compare_root, and the reporter print_result that renders it.            *)
(*                                                                         *)
(* Text is a sequence of one-character strings, so that the regular        *)
(* expressions, splits and joins of the code are computed and not assumed. *)
(***************************************************************************)
EXTENDS Integers, Sequences, FiniteSets, TLC

(***************************************************************************)
(* Bounds of the model.                                                    *)
(***************************************************************************)
\* number of configuration sources on the command line
NumConfigs == 2

(***************************************************************************)
(* Characters and strings.                                                 *)
(***************************************************************************)
\* the characters of the model's texts, in ascending code point order
Alphabet ==
  << "\t", "\n", " ", "!", "\"", "#", "$", ",", "-", ".", "/", "0", "1", "2",
     "5", ":", "<", "=", ">", "?", "E", "L", "M", "N", "T", "[", "\\", "]", "^",
     "_",
     "a", "b", "c", "e", "k", "l", "n", "o", "p", "q", "r", "s", "t", "u",
     "v", "x", "y", "{", "}" >>

\* the place of every character in that order
CharCodes ==
  [c \in {Alphabet[i] : i \in 1..Len(Alphabet)} |->
     CHOOSE i \in 1..Len(Alphabet) : Alphabet[i] = c]

CharCode(c) == CharCodes[c]

\* \s of the re module
IsSpace(c) == c \in {" ", "\t", "\n"}

\* \w of the re module
IsWord(c) ==
  c \in {"0", "1", "2", "5", "E", "L", "M", "N", "T", "_", "a", "b", "c", "e",
         "k", "l", "n", "o", "p", "q", "r", "s", "t", "u", "v", "x", "y"}

IsDigit(c) == c \in {"0", "1", "2", "5"}

\* the suffix of s that starts at index i
Tail_(s, i) == SubSeq(s, i, Len(s))

\* does s hold the text p at index i
StartsAt(s, i, p) ==
  /\ i >= 1
  /\ i + Len(p) - 1 <= Len(s)
  /\ SubSeq(s, i, i + Len(p) - 1) = p

\* first index j >= i of s that is not white space, Len(s)+1 when none
RECURSIVE SkipSpace(_, _)
SkipSpace(s, i) ==
  IF i > Len(s) THEN Len(s) + 1
  ELSE IF IsSpace(s[i]) THEN SkipSpace(s, i + 1) ELSE i

\* str.lstrip()
lstrip(s) == Tail_(s, SkipSpace(s, 1))

\* last index j <= i of s that is not white space, 0 when none
RECURSIVE SkipSpaceBack(_, _)
SkipSpaceBack(s, i) ==
  IF i < 1 THEN 0
  ELSE IF IsSpace(s[i]) THEN SkipSpaceBack(s, i - 1) ELSE i

\* str.rstrip()
rstrip(s) == SubSeq(s, 1, SkipSpaceBack(s, Len(s)))

\* str.find(p) + 1 for a literal text p of at least one character: the first
\* index of s that holds p, 0 when none
Find(s, p) ==
  LET at == {i \in 1..(Len(s) - Len(p) + 1) : SubSeq(s, i, i + Len(p) - 1) = p}
  IN  IF at = {} THEN 0 ELSE CHOOSE i \in at : \A j \in at : i <= j

\* re.sub(c, r, s) for a one-character pattern c
RECURSIVE SubChar(_, _, _)
SubChar(c, r, s) ==
  LET i == Find(s, <<c>>)
  IN  IF i = 0 THEN s
      ELSE SubSeq(s, 1, i - 1) \o r \o SubChar(c, r, Tail_(s, i + 1))

\* re.sub(p, r, s) for a literal pattern p of at least one character: the
\* matches are taken from the left and do not overlap
RECURSIVE SubStr(_, _, _)
SubStr(p, r, s) ==
  LET i == Find(s, p)
  IN  IF i = 0 THEN s
      ELSE SubSeq(s, 1, i - 1) \o r \o SubStr(p, r, Tail_(s, i + Len(p)))

\* str.split(p) for a literal separator p: always at least one piece
RECURSIVE SplitFrom(_, _, _)
SplitFrom(s, p, acc) ==
  LET i == Find(s, p)
  IN  IF i = 0 THEN <<acc \o s>>
      ELSE <<acc \o SubSeq(s, 1, i - 1)>>
           \o SplitFrom(Tail_(s, i + Len(p)), p, <<>>)

split(s, p) == SplitFrom(s, p, <<>>)

\* p.join(parts)
RECURSIVE join(_, _)
join(p, parts) ==
  IF parts = <<>> THEN <<>>
  ELSE IF Len(parts) = 1 THEN parts[1]
  ELSE parts[1] \o p \o join(p, Tail(parts))

\* "x in s" for a literal text x
Contains(s, x) == \E i \in 1..(Len(s) + 1) : StartsAt(s, i, x)

\* the order of Python's str comparison
RECURSIVE StrLess(_, _)
StrLess(a, b) ==
  IF b = <<>> THEN FALSE
  ELSE IF a = <<>> THEN TRUE
  ELSE IF Head(a) = Head(b) THEN StrLess(Tail(a), Tail(b))
  ELSE CharCode(Head(a)) < CharCode(Head(b))

\* sorted(S) for a finite set S of strings
RECURSIVE sorted(_)
sorted(S) ==
  IF S = {} THEN <<>>
  ELSE LET x == CHOOSE y \in S : TRUE
           rest == sorted(S \ {x})
           before == Cardinality({i \in 1..Len(rest) : StrLess(rest[i], x)})
       IN  SubSeq(rest, 1, before) \o <<x>> \o SubSeq(rest, before + 1, Len(rest))

\* the elements of a sequence
Range(q) == {q[i] : i \in 1..Len(q)}

(***************************************************************************)
(* Parsed documents: what json.loads and xmltodict.parse return.           *)
(* t is the Python type; s the text of a scalar; keys and kids the keys    *)
(* and the values of a dict (parallel), kids the items of a list.          *)
(***************************************************************************)
PyStr(s)   == [t |-> "str",   s |-> s,    keys |-> <<>>, kids |-> <<>>]
PyInt(s)   == [t |-> "int",   s |-> s,    keys |-> <<>>, kids |-> <<>>]
PyFloat(s) == [t |-> "float", s |-> s,    keys |-> <<>>, kids |-> <<>>]
PyNone   == [t |-> "None",  s |-> <<>>, keys |-> <<>>, kids |-> <<>>]
PyList(q)  == [t |-> "list",  s |-> <<>>, keys |-> <<>>, kids |-> q]
PyDict(k, v)        == [t |-> "dict",  s |-> <<>>, keys |-> k, kids |-> v]
OrderedDict(k, v) == [t |-> "OrderedDict", s |-> <<>>, keys |-> k, kids |-> v]

\* d[k] = v on a dict: a repeated key keeps its place and takes the new value
DictSet(d, k, v) ==
  IF \E i \in 1..Len(d.keys) : d.keys[i] = k
  THEN [d EXCEPT !.kids =
          [i \in 1..Len(d.kids) |-> IF d.keys[i] = k THEN v ELSE d.kids[i]]]
  ELSE [d EXCEPT !.keys = Append(d.keys, k), !.kids = Append(d.kids, v)]

\* d[k]
DictGet(d, k) == d.kids[CHOOSE i \in 1..Len(d.keys) : d.keys[i] = k]

(***************************************************************************)
(* json.loads, for the JSON of the model's texts: objects, arrays,         *)
(* strings with the escapes \n \" \\, unsigned numbers and null.           *)
(* A result is [ok, val, next]: next is the index after the value.         *)
(***************************************************************************)
JFail == [ok |-> FALSE, val |-> PyNone, next |-> 0]
JOk(v, n) == [ok |-> TRUE, val |-> v, next |-> n]

\* the text of a string literal whose opening quote is before index i
\* and whose characters before i are in acc; the characters up to the next
\* quote, backslash or control character are taken as they are
RECURSIVE JsonString(_, _, _)
JsonString(s, i, acc) ==
  LET special == {j \in i..Len(s) : s[j] \in {"\"", "\\", "\n", "\t"}}
  IN  IF special = {} THEN JFail
      ELSE
        LET j == CHOOSE k \in special : \A h \in special : k <= h
            acc1 == acc \o SubSeq(s, i, j - 1)
        IN  IF s[j] = "\"" THEN JOk(PyStr(acc1), j + 1)
            ELSE IF s[j] = "\\" THEN
                   IF j + 1 > Len(s) THEN JFail
                   ELSE IF s[j + 1] = "n"
                        THEN JsonString(s, j + 2, Append(acc1, "\n"))
                   ELSE IF s[j + 1] = "t"
                        THEN JsonString(s, j + 2, Append(acc1, "\t"))
                   ELSE IF s[j + 1] \in {"\"", "\\", "/"}
                        THEN JsonString(s, j + 2, Append(acc1, s[j + 1]))
                   ELSE JFail
            \* strict mode: a raw control character ends the parse
            ELSE JFail

\* the index after the digits that start at i
RECURSIVE SkipDigits(_, _)
SkipDigits(s, i) ==
  IF i <= Len(s) /\ IsDigit(s[i]) THEN SkipDigits(s, i + 1) ELSE i

JsonNumber(s, i) ==
  LET e == SkipDigits(s, i)
      \* a leading zero is a number on its own
      e1 == IF s[i] = "0" THEN i + 1 ELSE e
  IN  IF e1 <= Len(s) /\ s[e1] = "." /\ SkipDigits(s, e1 + 1) > e1 + 1
      THEN JOk(PyFloat(SubSeq(s, i, SkipDigits(s, e1 + 1) - 1)),
               SkipDigits(s, e1 + 1))
      ELSE JOk(PyInt(SubSeq(s, i, e1 - 1)), e1)

RECURSIVE JsonValue(_, _)
RECURSIVE JsonMembers(_, _, _)
RECURSIVE JsonElements(_, _, _)

\* the members of an object after "{" or after a ","
JsonMembers(s, i, d) ==
  LET k0 == SkipSpace(s, i)
  IN  IF k0 > Len(s) \/ s[k0] # "\"" THEN JFail
      ELSE LET k == JsonString(s, k0 + 1, <<>>)
           IN  IF ~k.ok THEN JFail
               ELSE LET c == SkipSpace(s, k.next)
                    IN  IF c > Len(s) \/ s[c] # ":" THEN JFail
                        ELSE LET v == JsonValue(s, SkipSpace(s, c + 1))
                             IN  IF ~v.ok THEN JFail
                                 ELSE LET n  == SkipSpace(s, v.next)
                                          d2 == DictSet(d, k.val.s, v.val)
                                      IN  IF n > Len(s) THEN JFail
                                          ELSE IF s[n] = "}" THEN JOk(d2, n + 1)
                                          ELSE IF s[n] = ","
                                               THEN JsonMembers(s, n + 1, d2)
                                          ELSE JFail

\* the elements of an array after "[" or after a ","
JsonElements(s, i, q) ==
  LET v == JsonValue(s, SkipSpace(s, i))
  IN  IF ~v.ok THEN JFail
      ELSE LET n == SkipSpace(s, v.next)
           IN  IF n > Len(s) THEN JFail
               ELSE IF s[n] = "]" THEN JOk(PyList(Append(q, v.val)), n + 1)
               ELSE IF s[n] = "," THEN JsonElements(s, n + 1, Append(q, v.val))
               ELSE JFail

JsonValue(s, i) ==
  IF i > Len(s) THEN JFail
  ELSE IF s[i] = "\"" THEN JsonString(s, i + 1, <<>>)
  ELSE IF s[i] = "{" THEN
         LET n == SkipSpace(s, i + 1)
         IN  IF n <= Len(s) /\ s[n] = "}"
             THEN JOk(PyDict(<<>>, <<>>), n + 1)
             ELSE JsonMembers(s, i + 1, PyDict(<<>>, <<>>))
  ELSE IF s[i] = "[" THEN
         LET n == SkipSpace(s, i + 1)
         IN  IF n <= Len(s) /\ s[n] = "]"
             THEN JOk(PyList(<<>>), n + 1)
             ELSE JsonElements(s, i + 1, <<>>)
  ELSE IF IsDigit(s[i]) THEN JsonNumber(s, i)
  ELSE IF StartsAt(s, i, <<"n", "u", "l", "l">>) THEN JOk(PyNone, i + 4)
  ELSE JFail

\* json.loads(s): [ok, val]; ok is FALSE where json.loads raises ValueError
json_loads(s) ==
  LET r == JsonValue(s, SkipSpace(s, 1))
  IN  IF r.ok /\ SkipSpace(s, r.next) = Len(s) + 1
      THEN [ok |-> TRUE, val |-> r.val]
      ELSE [ok |-> FALSE, val |-> PyNone]

(***************************************************************************)
(* xmltodict.parse, for the markup of the model's texts: elements without  *)
(* attributes that hold either text or child elements.  A text child is a  *)
(* str (None when empty), an element with children an OrderedDict, and a   *)
(* repeated child a list.  ok is FALSE where expat raises ExpatError.      *)
(***************************************************************************)
XFail == [ok |-> FALSE, name |-> <<>>, val |-> PyNone, next |-> 0]

\* the index after the word characters that start at i
RECURSIVE SkipWord(_, _)
SkipWord(s, i) ==
  IF i <= Len(s) /\ IsWord(s[i]) THEN SkipWord(s, i + 1) ELSE i

\* the index of the first "<" at or after i, Len(s)+1 when none
RECURSIVE FindLt(_, _)
FindLt(s, i) ==
  IF i > Len(s) THEN Len(s) + 1
  ELSE IF s[i] = "<" THEN i ELSE FindLt(s, i + 1)

\* d[name] = v the way xmltodict collects children: a repeated name becomes a list
XmlPush(d, name, v) ==
  IF \E i \in 1..Len(d.keys) : d.keys[i] = name
  THEN LET old == DictGet(d, name)
       IN  DictSet(d, name, IF old.t = "list" THEN PyList(Append(old.kids, v))
                            ELSE PyList(<<old, v>>))
  ELSE DictSet(d, name, v)

RECURSIVE XmlElement(_, _)
RECURSIVE XmlChildren(_, _, _)

\* the child elements from index i up to the closing tag of their parent
XmlChildren(s, i, d) ==
  LET k == SkipSpace(s, i)
  IN  IF StartsAt(s, k, <<"<", "/">>) THEN [XFail EXCEPT !.ok = TRUE, !.val = d, !.next = k]
      ELSE LET e == XmlElement(s, k)
           IN  IF ~e.ok THEN XFail
               ELSE XmlChildren(s, e.next, XmlPush(d, e.name, e.val))

\* the element whose "<" is at index i
XmlElement(s, i) ==
  IF ~(i <= Len(s) /\ s[i] = "<") THEN XFail
  ELSE
    LET n == SkipWord(s, i + 1)
        name == SubSeq(s, i + 1, n - 1)
        close == <<"<", "/">> \o name \o <<">">>
    IN  IF n = i + 1 \/ n > Len(s) \/ s[n] # ">" THEN XFail
        ELSE
          LET k == SkipSpace(s, n + 1)
          IN  IF k <= Len(s) /\ s[k] = "<" /\ ~StartsAt(s, k, <<"<", "/">>)
              THEN LET c == XmlChildren(s, k, OrderedDict(<<>>, <<>>))
                   IN  IF c.ok /\ StartsAt(s, c.next, close)
                       THEN [ok |-> TRUE, name |-> name, val |-> c.val,
                             next |-> c.next + Len(close)]
                       ELSE XFail
              ELSE LET e == FindLt(s, n + 1)
                       text == rstrip(lstrip(SubSeq(s, n + 1, e - 1)))
                   IN  IF StartsAt(s, e, close)
                       THEN [ok |-> TRUE, name |-> name,
                             val |-> IF text = <<>> THEN PyNone ELSE PyStr(text),
                             next |-> e + Len(close)]
                       ELSE XFail

\* xmltodict.parse(s): [ok, val]
xmltodict_parse(s) ==
  LET e == XmlElement(s, SkipSpace(s, 1))
  IN  IF e.ok /\ SkipSpace(s, e.next) = Len(s) + 1
      THEN [ok |-> TRUE, val |-> OrderedDict(<<e.name>>, <<e.val>>)]
      ELSE [ok |-> FALSE, val |-> PyNone]

(***************************************************************************)
(* The regular expressions of the code.                                    *)
(***************************************************************************)
\* re.match("\s*<\w+>", s) or re.match("\s*<\?xml version", s)
\* or re.match("\s*<!--", s)
LooksLikeXml(s) ==
  LET i == SkipSpace(s, 1)
  IN  \/ /\ i <= Len(s) /\ s[i] = "<"
         /\ SkipWord(s, i + 1) > i + 1
         /\ SkipWord(s, i + 1) <= Len(s)
         /\ s[SkipWord(s, i + 1)] = ">"
      \/ StartsAt(s, i, <<"<", "?", "x", "m", "l", " ", "v", "e", "r", "s", "o", "n">>)
      \/ StartsAt(s, i, <<"<", "!", "-", "-">>)

\* re.search("\n", s)
HasNewline(s) == \E i \in 1..Len(s) : s[i] = "\n"

\* re.match("^\s*#", s)
IsComment(s) == SkipSpace(s, 1) <= Len(s) /\ s[SkipSpace(s, 1)] = "#"

\* re.search("\\\s*$", s): the last character that is not white space is a backslash
IsContinued(s) ==
  SkipSpaceBack(s, Len(s)) >= 1 /\ s[SkipSpaceBack(s, Len(s))] = "\\"

\* re.sub("\\\s*$", '', s) on a line that IsContinued
DropContinuation(s) == SubSeq(s, 1, SkipSpaceBack(s, Len(s)) - 1)

\* re.sub("\s+", '', s)
DropSpace(s) == SelectSeq(s, LAMBDA c : ~IsSpace(c))

\* the lower case of a character, for re.IGNORECASE
Lower(c) ==
  CASE c = "E" -> "e" [] c = "L" -> "l" [] c = "M" -> "m"
    [] c = "N" -> "n" [] c = "T" -> "t" [] OTHER -> c

\* re.sub("^\s*export\s*", '', s, flags=re.IGNORECASE)
DropExport(s) ==
  LET i == SkipSpace(s, 1)
      w == <<"e", "x", "p", "o", "r", "t">>
  IN  IF i + 5 <= Len(s) /\ [j \in 1..6 |-> Lower(s[i + j - 1])] = w
      THEN Tail_(s, SkipSpace(s, i + 6))
      ELSE s

\* re.sub("^\s+", '', k), re.sub("\s+$", '', .), re.sub("\t", '', .)
CleanKey(k) == SubChar("\t", <<>>, rstrip(lstrip(k)))

\* re.search(p, s) for a pattern p of literal characters that may begin with
\* "^" and may end with "$"
re_search(p, s) ==
  LET atStart == Len(p) >= 1 /\ p[1] = "^"
      atEnd   == Len(p) >= 1 /\ p[Len(p)] = "$"
      lit == SubSeq(p, IF atStart THEN 2 ELSE 1,
                       IF atEnd THEN Len(p) - 1 ELSE Len(p))
  IN  \E i \in 1..(Len(s) + 1) :
        /\ StartsAt(s, i, lit)
        /\ atStart => i = 1
        /\ atEnd => i + Len(lit) - 1 = Len(s)

(***************************************************************************)
(* _do_file: the values that the freeform parser passes to _do_branch, in  *)
(* the order of the calls.                                                 *)
(***************************************************************************)
\* _do_file for a line outside a continuation run that splits at the first
\* "=" it finds, part of "==" or not
DoFileLine_first_equals(line0) ==
  LET line1 == lstrip(line0)
  IN  IF Len(line1) = 0 THEN <<>>
      ELSE
        LET line == DropExport(line1)
            i == Find(line, <<"=">>)
        IN  IF i > 0
            THEN <<PyDict(<<CleanKey(SubSeq(line, 1, i - 1))>>,
                          <<PyStr(CleanKey(Tail_(line, i + 1)))>>)>>
            ELSE <<PyStr(line)>>

\* the value _do_file passes to _do_branch for a line outside a continuation
\* run, <<>> when it passes none
DoFileLine(line0) ==
  LET line1 == lstrip(line0)
  IN  IF Len(line1) = 0 THEN <<>>
      ELSE
        LET line == DropExport(line1)
            test_line == SubStr(<<"=", "=">>,
                                <<"e","q","u","a","l","s","e","q","u","a","l","s">>,
                                line)
        IN  IF Contains(test_line, <<"=">>)
            THEN LET i == CHOOSE j \in 1..Len(test_line) :
                            /\ test_line[j] = "="
                            /\ \A h \in 1..(j - 1) : test_line[h] # "="
                     back(x) == SubStr(<<"e","q","u","a","l","s","e","q","u","a","l","s">>,
                                       <<"=", "=">>, x)
                     dkey == CleanKey(back(SubSeq(test_line, 1, i - 1)))
                     dval == CleanKey(back(Tail_(test_line, i + 1)))
                 IN  <<PyDict(<<dkey>>, <<PyStr(dval)>>)>>
            ELSE <<PyStr(line)>>

RECURSIVE DoFileLines(_, _)
DoFileLines(lines, part_of_list) ==
  IF lines = <<>> THEN <<>>
  ELSE
    LET line == Head(lines)
    IN  IF IsComment(line) THEN DoFileLines(Tail(lines), part_of_list)
        ELSE IF IsContinued(line)
             THEN DoFileLines(Tail(lines),
                              part_of_list \o <<" ">> \o DropContinuation(line))
        ELSE IF Len(part_of_list) > 0
             THEN LET element_array ==
                        split(DropSpace(SubChar("\t", <<>>, part_of_list)), <<",">>)
                  IN  <<PyList([i \in 1..Len(element_array) |-> PyStr(element_array[i])])>>
                      \o DoFileLines(Tail(lines), <<>>)
        ELSE DoFileLine(line) \o DoFileLines(Tail(lines), <<>>)

do_file(blueprint_branch) ==
  DoFileLines(split(SubStr(<<"\\", "\n">>, <<"\n">>, blueprint_branch), <<"\n">>),
              <<>>)

\* the text _do_plain_text records for blueprint_branch
clean_blueprint_branch(blueprint_branch) ==
  rstrip(lstrip(SubStr(<<"\n">>, <<"\\", "n">>,
                       SubChar("\t", <<" ">>, blueprint_branch))))

\* str(f) of a float read from the digits s: the fraction loses its trailing
\* zeros and keeps one digit
RECURSIVE float_str(_)
float_str(s) ==
  IF s[Len(s)] = "0" /\ s[Len(s) - 1] # "."
  THEN float_str(SubSeq(s, 1, Len(s) - 1)) ELSE s

(***************************************************************************)
(* The inputs: the command line and the files it names.                    *)
(***************************************************************************)
\* Python's None, where the code holds None or a string
None == <<"None">>

AllSources == <<"A.json", "B.json", "C.json", "D.json">>

\* the files that exist
SourceNames == SubSeq(AllSources, 1, NumConfigs)

QT == "\""

\* {"x":1}
TextX1 == <<"{", QT, "x", QT, ":", "1", "}", "\n">>
\* {"x":2}
TextX2 == <<"{", QT, "x", QT, ":", "2", "}", "\n">>
\* {"x":"1"}
TextXs1 == <<"{", QT, "x", QT, ":", QT, "1", QT, "}", "\n">>
\* {"x":"2","y":1.50}
TextXs2 == <<"{", QT, "x", QT, ":", QT, "2", QT, ",",
             QT, "y", QT, ":", "1", ".", "5", "0", "}", "\n">>
\* {"x":null}
TextNull == <<"{", QT, "x", QT, ":", "n", "u", "l", "l", "}", "\n">>
\* {"a":["p",{"k":"v"}]}
TextList == <<"{", QT, "a", QT, ":", "[", QT, "p", QT, ",", "{", QT, "k", QT,
              ":", QT, "v", QT, "}", "]", "}", "\n">>
\* two assignments, one per line
TextFreeform == <<"a", "=", "1", "\n", "b", "=", "2", "\n">>
\* one line without a newline
TextLine == <<"t", "e", "x", "t">>
\* {"c":"a=1\nb=2"}: freeform text inside a string value
TextNestedFreeform == <<"{", QT, "c", QT, ":", QT, "a", "=", "1", "\\", "n",
                        "b", "=", "2", QT, "}", "\n">>
\* {"c":"<b> t"}: a string value that begins like markup and is not
TextNestedBadXml == <<"{", QT, "c", QT, ":", QT, "<", "b", ">", " ", "t", QT,
                      "}", "\n">>
\* <r><e>v</e><b><c>y</c></b><a>x</a></r>
TextXml == <<"<", "r", ">", "<", "e", ">", "v", "<", "/", "e", ">",
             "<", "b", ">", "<", "c", ">", "y", "<", "/", "c", ">",
             "<", "/", "b", ">", "<", "a", ">", "x", "<", "/", "a", ">",
             "<", "/", "r", ">", "\n">>
\* {"x":"clusters"}
TextClusters == <<"{", QT, "x", QT, ":", QT, "c", "l", "u", "s", "t", "e",
                  "r", "s", QT, "}", "\n">>

\* a document with a freeform block at c (a comment, an export line, an
\* assignment, a line with ==, a plain line and two kinds of continued line),
\* the value "a : b" at e and, at k, the text of an object that holds a number
TextBlock == <<"{", QT, "c", QT, ":", QT, "#", " ", "c", "\\", "n", "e", "x",
             "p", "o", "r", "t", " ", "a", "=", "1", "\\", "n", "k", "=",
             "=", "v", "\\", "n", "b", " ", "=", " ", "2", "\\", "n", "t",
             "e", "x", "t", " ", "t", "e", "x", "t", "\\", "n", "x", "=",
             "1", ",", "\\", "\\", " ", "\\", "n", "y", "=", "2", "\\", "n",
             "p", ",", "\\", "\\", "\\", "n", "q", QT, ",", QT, "e", QT, ":",
             QT, "a", " ", ":", " ", "b", QT, ",", QT, "k", QT, ":", QT, "{",
             "\\", "n", "\\", QT, "x", "\\", QT, ":", "1", "}", QT, "}",
             "\n">>

\* the contents a file may have
Texts ==
  { TextX1, TextX2, TextXs1, TextXs2, TextNull, TextList, TextFreeform,
    TextLine, TextNestedFreeform, TextNestedBadXml, TextXml, TextClusters,
    TextBlock }

\* the values of --include and of --exclude
IncludeArgs == {None, <<>>, <<"1">>}
ExcludeArgs == {None, <<"x", "$">>}

\* the positional arguments
ArgLists ==
  { SourceNames,
    SourceNames \o <<SourceNames[1]>>,
    <<SourceNames[1], SourceNames[1]>>,
    <<SourceNames[1], "missing.json">> }

(***************************************************************************)
(* The state.                                                              *)
(***************************************************************************)
VARIABLES
  files,            \* the content of every file that exists
  pc,               \* where the program is: "init", "compare", "print",
                    \* "done", "exit" (sys.exit(1)) or "crashed"
  error,            \* the exception that ended the program
  configs,          \* self.configs
  short_val_length, \* self.short_val_length
  verbose_flag,     \* self.verbose_flag
  same_flag,        \* self.same_flag
  include_pattern,  \* self.include_pattern
  exclude_pattern,  \* self.exclude_pattern
  compare_root,     \* blueprint_hdl of do_compare, compare_root of the walker
  cur,              \* the index in configs of the source do_compare is at
  stack,            \* the pending calls of the walker, innermost first
  pi,               \* the number of paths print_result has gone through
  output,           \* the lines written, in order
  considered        \* the rows handed to the _spew functions, in order

vars ==
  << files, pc, error, configs, short_val_length, verbose_flag, same_flag,
     include_pattern, exclude_pattern, compare_root, cur, stack, pi, output,
     considered >>

options ==
  << short_val_length, verbose_flag, same_flag, include_pattern,
     exclude_pattern >>

report == << pi, output, considered >>

\* ConfigCompare() and the files on disk
Init ==
  /\ files \in [Range(SourceNames) -> Texts]
  /\ pc = "init"
  /\ error = ""
  /\ configs = None
  /\ short_val_length = 40
  /\ verbose_flag = FALSE
  /\ same_flag = FALSE
  /\ include_pattern = None
  /\ exclude_pattern = None
  /\ compare_root = <<>>
  /\ cur = 0
  /\ stack = <<>>
  /\ pi = 0
  /\ output = <<>>
  /\ considered = <<>>

(***************************************************************************)
(* validate_args, _validate_config_files and _set_args.                    *)
(***************************************************************************)
\* the blueprints in the order given, each once
RECURSIVE distinct_blueprints(_, _)
distinct_blueprints(blueprints, acc) ==
  IF blueprints = <<>> THEN acc
  ELSE distinct_blueprints(Tail(blueprints),
         IF Head(blueprints) \in Range(acc) THEN acc
         ELSE Append(acc, Head(blueprints)))

\* _set_args: an empty option leaves None
set_arg(a) == IF a # None /\ Len(a) > 0 THEN a ELSE None

validate_args ==
  /\ pc = "init"
  /\ \E verbose \in BOOLEAN, same \in BOOLEAN, inc \in IncludeArgs,
        exc \in ExcludeArgs, blueprints \in ArgLists :
       IF \/ verbose /\ same
          \/ Cardinality(Range(blueprints)) < 2
          \/ \E b \in Range(blueprints) : b \notin DOMAIN files
       THEN /\ pc' = "exit"
            /\ UNCHANGED << configs, options >>
       ELSE /\ pc' = "compare"
            /\ configs' = distinct_blueprints(blueprints, <<>>)
            /\ verbose_flag' = verbose
            /\ same_flag' = same
            /\ include_pattern' = set_arg(inc)
            /\ exclude_pattern' = set_arg(exc)
            /\ UNCHANGED short_val_length
  /\ UNCHANGED << files, error, compare_root, cur, stack, report >>

(***************************************************************************)
(* The walker.  A frame of the stack is a pending call: "chk" is           *)
(* _chk_label(compare_root, label, blueprint), "branch" is                 *)
(* _do_branch(blueprint, label, compare_root, branch), "except" marks the  *)
(* end of the try block of _do_branch and holds what its handler needs,    *)
(* "handler" is that handler about to run.                                 *)
(***************************************************************************)
Frame(op, label, branch) == [op |-> op, label |-> label, branch |-> branch]

\* label + ' : %s' % seg, or seg when label is None
JoinLabel(label, seg) ==
  IF label = None THEN seg ELSE label \o <<" ", ":", " ">> \o seg

\* _chk_label that makes the label anew for every source
chk_label_reset(cmp_root, test_label, conf_file) ==
  [P \in DOMAIN cmp_root \cup {test_label} |->
     IF P = test_label THEN [clusters |-> <<conf_file>>, values |-> <<>>]
     ELSE cmp_root[P]]

\* _chk_label that records the source only when it creates the label
chk_label_first_only(cmp_root, test_label, conf_file) ==
  IF test_label \in DOMAIN cmp_root THEN cmp_root
  ELSE cmp_root @@ (test_label :> [clusters |-> <<conf_file>>, values |-> <<>>])

\* _chk_label
chk_label(cmp_root, test_label, conf_file) ==
  LET r == IF test_label \in DOMAIN cmp_root THEN cmp_root
           ELSE cmp_root @@ (test_label :> [clusters |-> <<>>, values |-> <<>>])
  IN  IF conf_file \in Range(r[test_label].clusters) THEN r
      ELSE [r EXCEPT ![test_label].clusters = Append(@, conf_file)]

\* _do_plain_text that replaces the sources of the value by the current one
do_plain_text_overwrite(blueprint, label, root, blueprint_branch) ==
  IF Len(blueprint_branch) < 1 THEN [ok |-> TRUE, root |-> root]
  ELSE IF label \notin DOMAIN root THEN [ok |-> FALSE, root |-> root]
  ELSE
    LET v == clean_blueprint_branch(blueprint_branch)
        vals == root[label].values
    IN  [ok |-> TRUE,
         root |-> [root EXCEPT ![label].values =
                     [x \in DOMAIN vals \cup {v} |->
                        IF x = v THEN <<blueprint>> ELSE vals[x]]]]

\* _do_plain_text: [ok, root]; ok is FALSE where compare_root[label] raises
\* KeyError.  A label has the key 'values' when its values are not empty.
do_plain_text(blueprint, label, root, blueprint_branch) ==
  IF Len(blueprint_branch) < 1 THEN [ok |-> TRUE, root |-> root]
  ELSE IF label \notin DOMAIN root THEN [ok |-> FALSE, root |-> root]
  ELSE
    LET v == clean_blueprint_branch(blueprint_branch)
        vals == root[label].values
        vals1 == IF v \in DOMAIN vals THEN vals ELSE vals @@ (v :> <<>>)
        vals2 == IF blueprint \in Range(vals1[v]) THEN vals1
                 ELSE [vals1 EXCEPT ![v] = Append(@, blueprint)]
    IN  [ok |-> TRUE, root |-> [root EXCEPT ![label].values = vals2]]

\* the index of the innermost enclosing try block, 0 when there is none
HandlerIndex(stk) ==
  IF \E i \in 1..Len(stk) : stk[i].op = "except"
  THEN CHOOSE i \in 1..Len(stk) :
         /\ stk[i].op = "except"
         /\ \A j \in 1..(i - 1) : stk[j].op # "except"
  ELSE 0

\* a try block whose body has returned is left
RECURSIVE Settle(_)
Settle(stk) ==
  IF stk # <<>> /\ Head(stk).op = "except" THEN Settle(Tail(stk)) ELSE stk

\* the calls below stk return
Return(stk) ==
  /\ stack' = Settle(stk)
  /\ UNCHANGED << pc, error >>

\* an exception is raised with the calls stk pending: the innermost try block
\* catches it, whatever it is, or the program dies
Raise(stk, err) ==
  LET h == HandlerIndex(stk)
  IN  IF h = 0
      THEN /\ pc' = "crashed"
           /\ error' = err
           /\ stack' = <<>>
      ELSE /\ stack' = <<[stk[h] EXCEPT !.op = "handler"]>>
                         \o SubSeq(stk, h + 1, Len(stk))
           /\ UNCHANGED << pc, error >>

walking == pc = "compare" /\ stack # <<>>
top == stack[1]
blueprint == configs[cur]

\* do_compare: read the next source and walk it from the label None
do_compare ==
  /\ pc = "compare"
  /\ stack = <<>>
  /\ cur < Len(configs)
  /\ cur' = cur + 1
  /\ stack' = <<Frame("branch", None, PyStr(files[configs[cur + 1]]))>>
  /\ UNCHANGED << files, pc, error, configs, options, compare_root, report >>

ChkLabel ==
  /\ walking
  /\ top.op = "chk"
  /\ compare_root' = chk_label(compare_root, top.label, blueprint)
  /\ Return(Tail(stack))
  /\ UNCHANGED << files, configs, options, cur, report >>

\* the calls of a loop over the children kids, met under the labels labels
RECURSIVE Children(_, _)
Children(labels, kids) ==
  IF labels = <<>> THEN <<>>
  ELSE << Frame("chk", Head(labels), PyNone),
          Frame("branch", Head(labels), Head(kids)) >>
       \o Children(Tail(labels), Tail(kids))

\* parsed XML whose attributes and simple elements are recorded at the label
\* of the element, the other children being walked below that label
DoBranchOrderedDict_at_current_path ==
  /\ walking
  /\ top.op = "branch"
  /\ top.branch.t = "OrderedDict"
  /\ LET d == top.branch
         ks == sorted(Range(d.keys))
         simple == SelectSeq(ks, LAMBDA k : DictGet(d, k).t = "str")
         others == SelectSeq(ks, LAMBDA k : DictGet(d, k).t # "str")
         attr_value == join(<<" ", "-", " ">>,
                            [i \in 1..Len(simple) |-> DictGet(d, simple[i]).s])
         first == IF simple # <<>>
                  THEN Children(<<top.label>>, <<PyStr(attr_value)>>)
                  ELSE <<>>
         second == Children(
                     [i \in 1..Len(others) |-> JoinLabel(top.label, CleanKey(others[i]))],
                     [i \in 1..Len(others) |-> DictGet(d, others[i])])
     IN  Return(first \o second \o Tail(stack))
  /\ UNCHANGED << files, configs, options, compare_root, cur, report >>

\* parsed XML: the attributes and simple elements make one label and one
\* value, then every other child is walked below that label
DoBranchOrderedDict ==
  /\ walking
  /\ top.op = "branch"
  /\ top.branch.t = "OrderedDict"
  /\ LET d == top.branch
         ks == sorted(Range(d.keys))
         simple == SelectSeq(ks, LAMBDA k : DictGet(d, k).t = "str")
         others == SelectSeq(ks, LAMBDA k : DictGet(d, k).t # "str")
         attr_label == join(<<" ", "-", " ">>,
                            [i \in 1..Len(simple) |-> CleanKey(simple[i])])
         attr_value == join(<<" ", "-", " ">>,
                            [i \in 1..Len(simple) |-> DictGet(d, simple[i]).s])
         pass_label == IF simple # <<>> THEN JoinLabel(top.label, attr_label)
                       ELSE top.label
         first == IF simple # <<>>
                  THEN Children(<<pass_label>>, <<PyStr(attr_value)>>)
                  ELSE <<>>
         second == Children(
                     [i \in 1..Len(others) |-> JoinLabel(pass_label, CleanKey(others[i]))],
                     [i \in 1..Len(others) |-> DictGet(d, others[i])])
     IN  Return(first \o second \o Tail(stack))
  /\ UNCHANGED << files, configs, options, compare_root, cur, report >>

DoBranchDict ==
  /\ walking
  /\ top.op = "branch"
  /\ top.branch.t = "dict"
  /\ LET d == top.branch
         ks == sorted(Range(d.keys))
     IN  Return(Children(
                  [i \in 1..Len(ks) |-> JoinLabel(top.label, CleanKey(ks[i]))],
                  [i \in 1..Len(ks) |-> DictGet(d, ks[i])])
                \o Tail(stack))
  /\ UNCHANGED << files, configs, options, compare_root, cur, report >>

ELEMENT == <<"E", "L", "E", "M", "E", "N", "T">>

DoBranchList ==
  /\ walking
  /\ top.op = "branch"
  /\ top.branch.t = "list"
  /\ LET q == top.branch.kids
     IN  Return(Children([i \in 1..Len(q) |-> JoinLabel(top.label, ELEMENT)], q)
                \o Tail(stack))
  /\ UNCHANGED << files, configs, options, compare_root, cur, report >>

\* _do_plain_text as the last thing a call does
RecordAndReturn(label, text, stk) ==
  LET r == do_plain_text(blueprint, label, compare_root, text)
  IN  IF r.ok THEN compare_root' = r.root /\ Return(stk)
      ELSE compare_root' = compare_root /\ Raise(stk, "KeyError")

DoBranchFloat ==
  /\ walking
  /\ top.op = "branch"
  /\ top.branch.t = "float"
  /\ RecordAndReturn(top.label, float_str(top.branch.s), Tail(stack))
  /\ UNCHANGED << files, configs, options, cur, report >>

\* re.match on an int or on None raises TypeError
DoBranchTypeError ==
  /\ walking
  /\ top.op = "branch"
  /\ top.branch.t \in {"int", "None"}
  /\ Raise(Tail(stack), "TypeError")
  /\ UNCHANGED << files, configs, options, compare_root, cur, report >>

\* text that begins like XML is parsed, outside any try block
DoBranchXml ==
  /\ walking
  /\ top.op = "branch"
  /\ top.branch.t = "str"
  /\ LooksLikeXml(top.branch.s)
  /\ LET xml_tree == xmltodict_parse(top.branch.s)
     IN  IF xml_tree.ok
         THEN Return(<<Frame("branch", top.label, xml_tree.val)>> \o Tail(stack))
         ELSE Raise(Tail(stack), "ExpatError")
  /\ UNCHANGED << files, configs, options, compare_root, cur, report >>

\* the calls of _do_file for text at label
FreeformCalls(label, text) ==
  LET calls == do_file(text)
  IN  [i \in 1..Len(calls) |-> Frame("branch", label, calls[i])]

\* the handler of the try block: the whole text is recorded, then its lines
FreeformText(label, text, stk) ==
  RecordAndReturn(label, text, FreeformCalls(label, text) \o stk)

\* text of several lines: the walk of what json.loads returns is inside the
\* try block, and json.loads raising ValueError enters the handler at once
DoBranchMultiLine ==
  /\ walking
  /\ top.op = "branch"
  /\ top.branch.t = "str"
  /\ ~LooksLikeXml(top.branch.s)
  /\ HasNewline(top.branch.s)
  /\ LET new_blueprint_branch == json_loads(top.branch.s)
     IN  IF new_blueprint_branch.ok
         THEN /\ stack' = << Frame("branch", top.label, new_blueprint_branch.val),
                             Frame("except", top.label, top.branch) >>
                          \o Tail(stack)
              /\ UNCHANGED << pc, error, compare_root >>
         ELSE FreeformText(top.label, top.branch.s, Tail(stack))
  /\ UNCHANGED << files, configs, options, cur, report >>

\* an exception raised by the walk of the parsed text has been caught
DoExcept ==
  /\ walking
  /\ top.op = "handler"
  /\ FreeformText(top.label, top.branch.s, Tail(stack))
  /\ UNCHANGED << files, configs, options, cur, report >>

\* just a simple string
DoBranchPlain ==
  /\ walking
  /\ top.op = "branch"
  /\ top.branch.t = "str"
  /\ ~LooksLikeXml(top.branch.s)
  /\ ~HasNewline(top.branch.s)
  /\ RecordAndReturn(top.label, top.branch.s, Tail(stack))
  /\ UNCHANGED << files, configs, options, cur, report >>

(***************************************************************************)
(* The reporter.                                                           *)
(***************************************************************************)
\* _skip_line whose default mode hides the rows that differ
skip_line_inverted(config_details) ==
  IF same_flag THEN Len(config_details) # Len(configs)
  ELSE IF verbose_flag THEN FALSE
  ELSE Len(config_details) # Len(configs)

\* _skip_line
skip_line(config_details) ==
  IF same_flag THEN Len(config_details) # Len(configs)
  ELSE IF verbose_flag THEN FALSE
  ELSE Len(config_details) = Len(configs)

\* _skip_include_test
skip_include_test(value) ==
  IF include_pattern = None THEN FALSE
  ELSE ~re_search(include_pattern, value)

\* _skip_exclude_test
skip_exclude_test(value) ==
  IF exclude_pattern = None THEN FALSE
  ELSE re_search(exclude_pattern, value)

\* _skip_value
skip_value(value) == skip_include_test(value) \/ skip_exclude_test(value)

\* _get_spew_line
RECURSIVE get_spew_line(_, _)
get_spew_line(cfgs, details) ==
  IF cfgs = <<>> THEN <<>>
  ELSE (IF Head(cfgs) \in Range(details) THEN <<"\t", " ", "X", " ">>
        ELSE <<"\t", " ", "-", " ">>)
       \o get_spew_line(Tail(cfgs), details)

\* sorted(config_details) for a list of sources
sorted_sources(details) ==
  SelectSeq(AllSources, LAMBDA c : c \in Range(details))

\* a row handed to a _spew function, and whether it was written
Row(kind, key, details, emitted) ==
  [kind |-> kind, key |-> key, details |-> details, emitted |-> emitted]

\* a line written
Line(kind, key, details, line) ==
  [kind |-> kind, key |-> key, details |-> details, line |-> line]

\* the line _spew_path_differences writes
path_line(key, config_details) ==
  key \o <<"\t", QT, " ", QT>> \o get_spew_line(configs, config_details)

\* the rows of a long value that are kept for its short form
RECURSIVE short_rows(_)
short_rows(rows) ==
  IF rows = <<>> THEN <<>>
  ELSE (IF IsComment(Head(rows)) \/ Len(Head(rows)) < 1 THEN <<>>
        ELSE <<lstrip(Head(rows))>>)
       \o short_rows(Tail(rows))

\* s.count(c)
count(s, c) == Cardinality({i \in 1..Len(s) : s[i] = c})

Min(a, b) == IF a < b THEN a ELSE b

\* the line _spew_value_differences writes
value_line(key, config_details) ==
  LET parts == split(key, <<" ", ":", " ">>)
      path  == join(<<" ", ":", " ">>, SubSeq(parts, 1, Len(parts) - 1))
      value == lstrip(parts[Len(parts)])
      short_val == join(<<" ">>, short_rows(split(value, <<"\\", "n">>)))
      cut == SubSeq(short_val, 1, Min(short_val_length - 1, Len(short_val)))
      quote == IF /\ SkipSpace(cut, 1) <= Len(cut)
                  /\ cut[SkipSpace(cut, 1)] = QT
                  /\ count(cut, QT) % 2 = 1
               THEN <<QT>> ELSE <<>>
  IN  IF Len(value) > short_val_length
      THEN path \o <<"\t">> \o cut \o <<" ", ".", ".", ".", " ">> \o quote
           \o get_spew_line(configs, config_details) \o <<"\t">> \o value
      ELSE path \o <<"\t">> \o value \o get_spew_line(configs, config_details)

\* is a row with this key and these sources written
spewed(key, config_details) ==
  ~skip_line(config_details) /\ ~skip_value(key)

\* _spew_path_differences: the row it is handed
spew_path_differences(key, config_details) ==
  <<Row("path", key, config_details, spewed(key, config_details))>>

\* _spew_value_differences: the row it is handed
spew_value_differences(key, config_details) ==
  <<Row("value", key, config_details, spewed(key, config_details))>>

CLUSTERS == <<"c", "l", "u", "s", "t", "e", "r", "s">>
VALUES == <<"v", "a", "l", "u", "e", "s">>

\* _print_differences(key, config_details) for the dictionary of the values
\* of a label: a dictionary with the key 'clusters' is taken for a label
print_values(key, values) ==
  IF CLUSTERS \in DOMAIN values
  THEN spew_path_differences(key, values[CLUSTERS])
       \o (IF VALUES \in DOMAIN values
           THEN spew_value_differences(key, sorted_sources(values[VALUES]))
           ELSE <<>>)
  ELSE LET dks == sorted(DOMAIN values)
           each(i) == spew_value_differences(JoinLabel(key, dks[i]),
                                             sorted_sources(values[dks[i]]))
           all[i \in 0..Len(dks)] == IF i = 0 THEN <<>> ELSE all[i - 1] \o each(i)
       IN  all[Len(dks)]

\* _print_differences(key, config_details) for a label of compare_results
print_differences(key, config_details) ==
  spew_path_differences(key, config_details.clusters)
  \o (IF DOMAIN config_details.values # {}
      THEN print_values(key, config_details.values)
      ELSE <<>>)

\* the rows, each with the label of compare_results it was made for
Labelled(rows, label) ==
  [i \in 1..Len(rows) |->
     [kind |-> rows[i].kind, key |-> rows[i].key, details |-> rows[i].details,
      emitted |-> rows[i].emitted, label |-> label]]

\* the lines of the rows that are written
WrittenLines(rows) ==
  LET w == SelectSeq(rows, LAMBDA r : r.emitted)
  IN  [i \in 1..Len(w) |->
         Line(w[i].kind, w[i].key, w[i].details,
              IF w[i].kind = "path" THEN path_line(w[i].key, w[i].details)
              ELSE value_line(w[i].key, w[i].details))]

\* "PATH\tVALUE" + "\t%s" per source + "\tCOMPLETE VALUE IF TRUNCATED":
\* the headers line, known by its kind and its sources
headers == Line("header", <<>>, configs, <<>>)

\* print_result up to its loop: the headers are written
print_result ==
  /\ pc = "compare"
  /\ stack = <<>>
  /\ cur = Len(configs)
  /\ pc' = "print"
  /\ output' = <<headers>>
  /\ UNCHANGED << files, error, configs, options, compare_root, cur, stack,
                  pi, considered >>

\* one turn of the loop of print_result, over sorted(compare_results.keys())
PrintDifferences ==
  /\ pc = "print"
  /\ pi < Cardinality(DOMAIN compare_root)
  /\ LET k == sorted(DOMAIN compare_root)[pi + 1]
         rows == print_differences(k, compare_root[k])
     IN  /\ considered' = considered \o Labelled(rows, k)
         /\ output' = output \o WrittenLines(rows)
  /\ pi' = pi + 1
  /\ UNCHANGED << files, pc, error, configs, options, compare_root, cur, stack >>

\* the end of print_result
PrintDone ==
  /\ pc = "print"
  /\ pi = Cardinality(DOMAIN compare_root)
  /\ pc' = "done"
  /\ UNCHANGED << files, error, configs, options, compare_root, cur, stack,
                  report >>

Next ==
  \/ validate_args
  \/ do_compare
  \/ ChkLabel
  \/ DoBranchOrderedDict
  \/ DoBranchDict
  \/ DoBranchList
  \/ DoBranchFloat
  \/ DoBranchTypeError
  \/ DoBranchXml
  \/ DoBranchMultiLine
  \/ DoExcept
  \/ DoBranchPlain
  \/ print_result
  \/ PrintDifferences
  \/ PrintDone

Spec == Init /\ [][Next]_vars

(***************************************************************************)
(* Properties.                                                             *)
(***************************************************************************)
\* the full set of distinct sources
Full == Range(configs)

NoPattern == include_pattern = None /\ exclude_pattern = None
DefaultMode == ~verbose_flag /\ ~same_flag

\* every source has been merged
Merged ==
  /\ pc \in {"compare", "print", "done"}
  /\ stack = <<>>
  /\ cur = Len(configs)

\* the lines written after the headers
DataLines == Tail(output)

\* does the display mode suppress a row whose set of sources is S
ModeSuppresses(S) ==
  IF same_flag THEN S # Full
  ELSE IF verbose_flag THEN FALSE
  ELSE S = Full

\* C1: for every row handed to the reporter, with S its set of sources: in
\* default mode the display mode suppresses it iff S is the full set of
\* sources, in same-only mode iff S is not the full set, in verbose mode never;
\* a row is written only if the mode does not suppress it, and is written if
\* moreover the include and exclude tests pass.
C1_DisplayMode ==
  \A i \in 1..Len(considered) :
    LET r == considered[i]
    IN  /\ r.emitted => ~ModeSuppresses(Range(r.details))
        /\ (~ModeSuppresses(Range(r.details)) /\ ~skip_value(r.key)) => r.emitted

C1_Witness ==
  /\ pc = "done"
  /\ DefaultMode
  /\ NoPattern
  /\ \E i \in 1..Len(considered) :
       Range(considered[i].details) = Full /\ ~considered[i].emitted
  /\ \E i \in 1..Len(considered) :
       Range(considered[i].details) # Full /\ considered[i].emitted

\* C2: a row is not written when an include pattern is set and the canonical
\* path of the row's label does not match it, nor when an exclude pattern is
\* set and that path matches it.
C2_FiltersOnPath ==
  \A i \in 1..Len(considered) :
    LET r == considered[i]
    IN  /\ (include_pattern # None /\ ~re_search(include_pattern, r.label))
             => ~r.emitted
        /\ (exclude_pattern # None /\ re_search(exclude_pattern, r.label))
             => ~r.emitted

\* does the output hold a value row for the value v at the label P whose
\* sources are exactly S
HasValueRow(P, v, S) ==
  \E i \in 1..Len(DataLines) :
    /\ DataLines[i].kind = "value"
    /\ DataLines[i].key = JoinLabel(P, v)
    /\ Range(DataLines[i].details) = S

\* C3: with A.json holding {"x":1} and B.json holding {"x":2}, the run ends
\* normally; in default mode it has written for x the value 1 under A.json
\* only and the value 2 under B.json only, in same-only mode no row for x.
C3_TwoSources ==
  ( /\ pc \in {"done", "crashed", "exit"}
    /\ configs = <<"A.json", "B.json">>
    /\ files["A.json"] = TextX1
    /\ files["B.json"] = TextX2
    /\ NoPattern )
  => /\ pc = "done"
     /\ DefaultMode => /\ HasValueRow(<<"x">>, <<"1">>, {"A.json"})
                       /\ HasValueRow(<<"x">>, <<"2">>, {"B.json"})
     /\ same_flag => \A i \in 1..Len(considered) :
                       considered[i].label = <<"x">> => ~considered[i].emitted

\* all the sources have the same content
SameContents ==
  \A i, j \in 1..Len(configs) : files[configs[i]] = files[configs[j]]

\* C4: when all the sources hold the same document and the merge has ended
\* without failure, every label has all the sources in clusters and every
\* value has all the sources; in verbose mode every row written marks all the
\* sources, and in default mode no row is written after the headers.
C4_IdenticalSources ==
  (Merged /\ SameContents)
  => /\ \A P \in DOMAIN compare_root :
          /\ Range(compare_root[P].clusters) = Full
          /\ \A v \in DOMAIN compare_root[P].values :
               Range(compare_root[P].values[v]) = Full
     /\ (pc \in {"print", "done"} /\ verbose_flag)
          => \A i \in 1..Len(DataLines) : Range(DataLines[i].details) = Full
     /\ (pc \in {"print", "done"} /\ DefaultMode) => DataLines = <<>>

C4_Witness ==
  /\ pc = "done"
  /\ SameContents
  /\ verbose_flag
  /\ \E i \in 1..Len(DataLines) : DataLines[i].kind = "value"
  /\ \E P \in DOMAIN compare_root : DOMAIN compare_root[P].values = {}

\* the walker is at a list one of whose elements is a mapping
MeetsListOfMapping ==
  /\ walking
  /\ top.op = "branch"
  /\ top.branch.t = "list"
  /\ \E i \in 1..Len(top.branch.kids) :
       top.branch.kids[i].t \in {"dict", "OrderedDict"}

\* C5: when the walker meets a list one of whose elements is a mapping, the
\* program exits with a nonzero status and nothing is recorded.
C5_ListOfMappingIsFatal ==
  [][MeetsListOfMapping => (pc' = "exit" /\ compare_root' = compare_root)]_vars

\* the source blueprint has the value text at label in root
HasValue(root, label, text, b) ==
  /\ label \in DOMAIN root
  /\ text \in DOMAIN root[label].values
  /\ b \in Range(root[label].values[text])

\* the walker is at a string that begins like markup and is not markup
MeetsBadXml ==
  /\ walking
  /\ top.op = "branch"
  /\ top.branch.t = "str"
  /\ LooksLikeXml(top.branch.s)
  /\ ~xmltodict_parse(top.branch.s).ok

\* C6: when a string that begins like markup fails to parse, the run goes on
\* and the text is recorded as a whole at its label.
C6_ParseFallback ==
  [][MeetsBadXml =>
       /\ pc' = "compare"
       /\ HasValue(compare_root', top.label,
                   clean_blueprint_branch(top.branch.s), blueprint)]_vars

\* the raw content is neither markup nor a structured object of several lines
IsFreeformSource(text) ==
  /\ ~LooksLikeXml(text)
  /\ ~(HasNewline(text) /\ json_loads(text).ok)

\* C7: the merge of a source whose raw content is neither markup nor a
\* structured object of several lines does not fail.
C7_FreeformSourceMerges ==
  \A i \in 1..Len(configs) :
    (configs # None /\ IsFreeformSource(files[configs[i]]))
    => ~(pc = "crashed" /\ cur = i)

\* the walker is at a number or at None
MeetsNumberOrNone ==
  /\ walking
  /\ top.op = "branch"
  /\ top.branch.t \in {"int", "float", "None"}

\* the source b has a value at label in root
HasSomeValue(root, label, b) ==
  /\ label \in DOMAIN root
  /\ \E v \in DOMAIN root[label].values : b \in Range(root[label].values[v])

\* C8: a leaf that is a number or None is recorded as a value at its label
\* for the current source, and the walk does not fail.
C8_NumberLeafRecorded ==
  [][MeetsNumberOrNone =>
       /\ pc' = "compare"
       /\ stack' = Settle(Tail(stack))
       /\ HasSomeValue(compare_root', top.label, blueprint)]_vars

\* C9: at every label, every source of every value is in clusters.
C9_ClustersCoverValues ==
  \A P \in DOMAIN compare_root :
    \A v \in DOMAIN compare_root[P].values :
      Range(compare_root[P].values[v]) \subseteq Range(compare_root[P].clusters)

C9_Witness ==
  /\ pc = "compare"
  /\ cur = Len(configs)
  /\ \E P \in DOMAIN compare_root :
       /\ DOMAIN compare_root[P].values # {}
       /\ \E v \in DOMAIN compare_root[P].values :
            Range(compare_root[P].values[v]) # Range(compare_root[P].clusters)
  /\ \E P \in DOMAIN compare_root :
       DOMAIN compare_root[P].values = {} /\ compare_root[P].clusters # <<>>

\* the rows of a label: its presence row, then a row for each of its values
RowsOfLabel(P) ==
  LET vs == sorted(DOMAIN compare_root[P].values)
  IN  <<[kind |-> "path", label |-> P, key |-> P,
         sources |-> Range(compare_root[P].clusters)]>>
      \o [i \in 1..Len(vs) |->
            [kind |-> "value", label |-> P, key |-> JoinLabel(P, vs[i]),
             sources |-> Range(compare_root[P].values[vs[i]])]]

\* the rows of the labels, in ascending order of the labels
ExpectedRows ==
  LET ks == sorted(DOMAIN compare_root)
      all[i \in 0..Len(ks)] ==
        IF i = 0 THEN <<>> ELSE all[i - 1] \o RowsOfLabel(ks[i])
  IN  all[Len(ks)]

\* C10: in verbose mode without patterns, the rows written are, label after
\* label in ascending order, the presence row of the label and then one value
\* row for each value recorded at the label.
C10_VerboseRows ==
  (pc = "done" /\ verbose_flag /\ NoPattern)
  => /\ Len(DataLines) = Len(considered)
     /\ [i \in 1..Len(considered) |->
           [kind |-> considered[i].kind, label |-> considered[i].label,
            key |-> considered[i].key,
            sources |-> Range(considered[i].details)]] = ExpectedRows

\* the rows that were written, in the order of the lines after the headers
EmittedRows == SelectSeq(considered, LAMBDA r : r.emitted)

\* the value a value row was made for: its key is "label : value"
RecordedValue(r) == Tail_(r.key, Len(r.label) + 4)

\* the ellipsis marker of a shortened value
Ellipsis == <<" ", ".", ".", ".", " ">>

\* the columns cols are those of a value row for the value v: path, value, one
\* column per source and, for a long value only, the complete value
ValueColumns(cols, v) ==
  IF Len(v) > short_val_length
  THEN /\ Len(cols) = Len(configs) + 3
       /\ \E m \in 0..(short_val_length - 1) :
            /\ SubSeq(cols[2], m + 1, m + 5) = Ellipsis
            /\ Len(cols[2]) \in {m + 5, m + 6}
       /\ cols[Len(cols)] = v
  ELSE /\ Len(cols) = Len(configs) + 2
       /\ cols[2] = v

\* C11: every value row written for a recorded value v holds, when v is longer
\* than the threshold, at most threshold - 1 characters and the ellipsis marker
\* in its value column and v itself in a column after those of the sources;
\* otherwise it holds v in its value column and has no column after those of
\* the sources.
C11_ValueColumn ==
  pc \in {"print", "done"} =>
    \A i \in 1..Len(EmittedRows) :
      EmittedRows[i].kind = "value" =>
        ValueColumns(split(DataLines[i].line, <<"\t">>),
                     RecordedValue(EmittedRows[i]))

\* the freeform blocks of a document: the members of its top-level object
\* that are text of several lines, neither markup nor a structured object
Blocks(text) ==
  LET doc == json_loads(text)
  IN  IF ~(HasNewline(text) /\ ~LooksLikeXml(text) /\ doc.ok /\ doc.val.t = "dict")
      THEN {}
      ELSE { [label |-> CleanKey(doc.val.keys[i]), text |-> doc.val.kids[i].s] :
               i \in { j \in 1..Len(doc.val.keys) :
                         /\ doc.val.kids[j].t = "str"
                         /\ HasNewline(doc.val.kids[j].s)
                         /\ ~LooksLikeXml(doc.val.kids[j].s)
                         /\ ~json_loads(doc.val.kids[j].s).ok } }

\* the tokens of a logical line: white space removed, split on commas
Tokens(logical) ==
  { t \in Range(split(DropSpace(logical), <<",">>)) : t # <<>> }

\* the tokens of the continuation runs of lines: a run is the lines that end
\* in a backslash and the line that follows them; run holds the lines of the
\* run so far
RECURSIVE RunTokens(_, _)
RunTokens(lines, run) ==
  IF lines = <<>> THEN Tokens(run)
  ELSE IF IsComment(Head(lines)) THEN RunTokens(Tail(lines), run)
  ELSE IF IsContinued(Head(lines))
       THEN RunTokens(Tail(lines), run \o <<" ">> \o DropContinuation(Head(lines)))
  ELSE IF run # <<>>
       THEN Tokens(run \o <<" ">> \o Head(lines)) \cup RunTokens(Tail(lines), <<>>)
  ELSE RunTokens(Tail(lines), <<>>)

\* the values the source b has at label in root
ValuesOf(root, label, b) ==
  IF label \notin DOMAIN root THEN {}
  ELSE { v \in DOMAIN root[label].values : b \in Range(root[label].values[v]) }

\* C12: once the sources are merged, the values a source has at P : ELEMENT
\* for a freeform block at P are exactly the tokens of the block's
\* continuation runs, the line that ends each run included.
C12_ContinuationTokens ==
  Merged =>
    \A i \in 1..Len(configs) :
      \A b \in Blocks(files[configs[i]]) :
        ValuesOf(compare_root, JoinLabel(b.label, ELEMENT), configs[i])
          = RunTokens(split(b.text, <<"\n">>), <<>>)

\* the index of the first "=" of t at or after j that is not part of a pair
\* "==", the pairs being taken from the left; 0 when there is none
RECURSIVE LoneEquals(_, _)
LoneEquals(t, j) ==
  IF j > Len(t) THEN 0
  ELSE IF t[j] # "=" THEN LoneEquals(t, j + 1)
  ELSE IF j < Len(t) /\ t[j + 1] = "=" THEN LoneEquals(t, j + 2)
  ELSE j

\* the source b has, for the text t of a line of a block at P, the value the
\* line stands for: the text after the first "=" that is not part of "==" at
\* P : the text before it, or the whole text at P
LineRecorded(root, P, t, b) ==
  LET e == LoneEquals(t, 1)
  IN  IF e > 0
      THEN HasValue(root, JoinLabel(P, rstrip(lstrip(SubSeq(t, 1, e - 1)))),
                    rstrip(lstrip(Tail_(t, e + 1))), b)
      ELSE HasValue(root, P, rstrip(lstrip(t)), b)

\* the merge has just ended
MergeEnded == pc = "compare" /\ stack = <<>> /\ cur = Len(configs)

EQUALSEQUALS == <<"e", "q", "u", "a", "l", "s", "e", "q", "u", "a", "l", "s">>

\* the line n of lines is outside every continuation run: it does not end in
\* a backslash and the line before it, comments aside, does not either
OutsideRun(lines, n) ==
  /\ ~IsComment(lines[n])
  /\ ~IsContinued(lines[n])
  /\ \A m \in 1..(n - 1) :
       (IsContinued(lines[m]) /\ ~IsComment(lines[m]))
       => \E h \in (m + 1)..(n - 1) : ~IsComment(lines[h])

\* the text t of a line stands for a value the walker records as it is: no
\* text that begins like markup, and no word that the code takes for "=="
PlainLine(t) ==
  LET e == LoneEquals(t, 1)
  IN  /\ ~Contains(t, EQUALSEQUALS)
      /\ ~Contains(t, <<"\t">>)
      /\ ~LooksLikeXml(IF e > 0 THEN Tail_(t, e + 1) ELSE t)
      /\ e > 0 => rstrip(lstrip(Tail_(t, e + 1))) # <<>>

MeetsMarkupScalars ==
  /\ walking
  /\ top.op = "branch"
  /\ top.branch.t = "OrderedDict"
  /\ \E i \in 1..Len(top.branch.kids) : top.branch.kids[i].t = "str"

\* the keys of the children of the element d that are scalars, sorted, and
\* the keys of its other children
ScalarKeys(d) == sorted({k \in Range(d.keys) : DictGet(d, k).t = "str"})
ComplexKeys(d) == {k \in Range(d.keys) : DictGet(d, k).t # "str"}

\* the scalars of d as one value, joined with " - " in the order of the keys
ScalarValue(d) ==
  join(<<" ", "-", " ">>,
       [i \in 1..Len(ScalarKeys(d)) |-> DictGet(d, ScalarKeys(d)[i]).s])

\* among the calls stk, the value branch is to be registered and walked at label
WalkedAt(stk, label, branch) ==
  \E n \in 1..(Len(stk) - 1) :
    /\ stk[n] = Frame("chk", label, PyNone)
    /\ stk[n + 1] = Frame("branch", label, branch)

\* C14 as stated: at a markup element at P with a scalar child, the joined
\* values of the scalar children are recorded at P itself and every complex
\* child k is walked at P : k.
C14_ScalarsAtCurrentPath ==
  [][MeetsMarkupScalars =>
       /\ WalkedAt(stack', top.label, PyStr(ScalarValue(top.branch)))
       /\ \A k \in ComplexKeys(top.branch) :
            WalkedAt(stack', JoinLabel(top.label, k), DictGet(top.branch, k))]_vars

\* C14, amended: at a markup element at P with a scalar child, the sorted keys
\* of the scalar children joined with " - " make a new path segment G, the
\* values joined with " - " are recorded as one leaf at P : G, and every
\* complex child k is walked at P : G : k.
C14_ScalarsMakeSegment ==
  [][MeetsMarkupScalars =>
       LET G == JoinLabel(top.label, join(<<" ", "-", " ">>, ScalarKeys(top.branch)))
       IN  /\ stack'[1] = Frame("chk", G, PyNone)
           /\ stack'[2] = Frame("branch", G, PyStr(ScalarValue(top.branch)))
           /\ \A k \in ComplexKeys(top.branch) :
                /\ WalkedAt(stack', JoinLabel(G, k), DictGet(top.branch, k))
                /\ ~WalkedAt(stack', JoinLabel(top.label, k), DictGet(top.branch, k))
           /\ compare_root' = compare_root]_vars

\* the walker has met an element with two scalar children and a complex one:
\* the joined values wait at the label of the joined keys, the complex child
\* below that label
C14_Witness ==
  /\ walking
  /\ Len(stack) >= 4
  /\ stack[2] = Frame("branch", <<"r", " ", ":", " ", "a", " ", "-", " ", "e">>,
                      PyStr(<<"x", " ", "-", " ", "v">>))
  /\ stack[4].op = "branch"
  /\ stack[4].label = <<"r", " ", ":", " ", "a", " ", "-", " ", "e", " ", ":", " ", "b">>
  /\ stack[4].branch.t = "OrderedDict"

\* the walk of what a text of several lines parsed to has raised an exception
\* and the handler of its try block is about to run
ParsedTextCaught ==
  /\ walking
  /\ top.op = "handler"
  /\ HasNewline(top.branch.s)
  /\ json_loads(top.branch.s).ok

\* C15: a text of several lines that parses as a structured object is never
\* recorded as a whole at its label and never handed to the freeform parser,
\* whatever the walk of the parsed object meets.
C15_ParsedTextWalkedOnly ==
  [][ParsedTextCaught =>
       /\ ~HasValue(compare_root', top.label,
                    clean_blueprint_branch(top.branch.s), blueprint)
       /\ Len(stack') < Len(stack)]_vars

\* everything root1 holds, root2 holds: labels, sources of a label, values and
\* sources of a value
Includes(root2, root1) ==
  \A P \in DOMAIN root1 :
    /\ P \in DOMAIN root2
    /\ Range(root1[P].clusters) \subseteq Range(root2[P].clusters)
    /\ \A v \in DOMAIN root1[P].values :
         /\ v \in DOMAIN root2[P].values
         /\ Range(root1[P].values[v]) \subseteq Range(root2[P].values[v])

\* C16: compare_root is empty until the first source is read, no step removes
\* a label, a source of a label, a value or a source of a value from it, and
\* the steps of print_result leave it as it is.
C16_AggregatorLifecycle ==
  [][/\ cur = 0 => compare_root = <<>>
     /\ Includes(compare_root', compare_root)
     /\ pc' \in {"print", "done"} => compare_root' = compare_root]_vars

\* the report is written, and the merge had added to a label that an earlier
\* source had made: a second source and a second value
C16_Witness ==
  /\ pc = "done"
  /\ Len(output) > 1
  /\ \E P \in DOMAIN compare_root :
       /\ Len(compare_root[P].clusters) >= 2
       /\ Cardinality(DOMAIN compare_root[P].values) >= 2

====
